---- MODULE Spec2Model ----
(***************************************************************************)
(* Transactional page manager of redb                                      *)
(* (src/tree_store/page_store/page_manager.rs).                            *)
(*                                                                         *)
(* The mapping is modelled field by field.  mmap is the in-memory image,   *)
(* disk gives for every field the set of values the backing file may hold: *)
(* the value of the last completed flush and every value written since.    *)
(* A crash keeps, for every field, one of these values.                    *)
(***************************************************************************)
EXTENDS Integers, Sequences, FiniteSets, TLC

\* ------------------------------------------------------------------ bounds
MmapPages == 3        \* pages of the mapping that hold user data or the metapage
PageSizeLog2 == 9     \* log2 of the page size in use
MaxTxn == 2           \* transaction ids handed to commit / non_durable_commit
MaxHandles == 2       \* page handles alive at the same time
MaxFreed == 1         \* length of freed_since_commit
MaxOrder == 1         \* page orders of the roots handed to set_secondary_root_page
MaxRootIndex == 1     \* page indices of the roots handed to set_secondary_root_page
MaxHandlePage == 1    \* pages 1 .. MaxHandlePage are asked for with get_page / get_page_mut
MaxCrashes == 1       \* crashes in one run
MinSize == 4560       \* smallest mapping length handed to the layout computation
MaxSize == 4660       \* largest mapping length handed to the layout computation

\* ------------------------------------------------------- program constants
DB_METADATA_PAGE == 0
DB_METAPAGE_SIZE == 384
IterationCap == 1000

Pow2(n) == 2 ^ n
PageSize == Pow2(PageSizeLog2)

\* --------------------------------------------- PageAllocator (not in src/)
\* Bitmap allocator: one bit per page, 1 = allocated.
required_space(n_pages) == (n_pages + 7) \div 8

MmapLen == MmapPages * PageSize + 2 * required_space(MmapPages)

\* One pass of the while loop of lines 347-351 over <<guess, new_guess, i>>: the
\* body when the condition holds, nothing once it fails.
usable_pages_step(mmap_size, st) ==
  IF st[1] # st[2] /\ st[3] < IterationCap
  THEN <<st[2], (mmap_size - 2 * required_space(st[2])) \div PageSize, st[3] + 1>>
  ELSE st

\* n passes of the loop.  The loop makes at most IterationCap passes, and none
\* once its condition has failed.
RECURSIVE usable_pages_loop(_, _, _)
usable_pages_loop(mmap_size, st, n) ==
  IF st[1] = st[2] \/ st[3] >= IterationCap \/ n = 0 THEN st
  ELSE IF n = 1 THEN usable_pages_step(mmap_size, st)
  ELSE usable_pages_loop(mmap_size, usable_pages_loop(mmap_size, st, n \div 2),
                         n - (n \div 2))

calculate_usable_pages(mmap_size) ==
  LET guess == mmap_size \div PageSize
      new_guess == (mmap_size - 2 * required_space(guess)) \div PageSize
  IN usable_pages_loop(mmap_size, <<guess, new_guess, 0>>, IterationCap)[1]

UsablePages == calculate_usable_pages(MmapLen)

PageIdx == 0 .. (UsablePages - 1)     \* indices the allocator tracks
UserPages == PageIdx \ {DB_METADATA_PAGE}
HandlePages == {p \in UserPages : p <= MaxHandlePage}
Slots == {0, 1}
Regions == {1, 2}     \* 1 = [S - 2R, S - R), 2 = [S - R, S); 0 = null pointer

\* ------------------------------------------------------------- PageNumber
PageNumber(index, order) == [page_index |-> index, page_order |-> order]
null == PageNumber(0, 0)

\* The 64-bit word is kept as <<bits 63..48, bits 47..0>>.  Page indices of the
\* model are far below 2^48, so the index contributes nothing to bits 63..48.
RECURSIVE BitOr(_, _)
BitOr(a, b) ==
  IF a = 0 THEN b
  ELSE IF b = 0 THEN a
  ELSE (IF (a % 2 = 1) \/ (b % 2 = 1) THEN 1 ELSE 0) + 2 * BitOr(a \div 2, b \div 2)

to_be_bytes(pn) == <<BitOr(0, pn.page_order), pn.page_index>>

from_be_bytes_no_order(bytes) == PageNumber(bytes[2], 0)

from_be_bytes(bytes) == PageNumber(bytes[2], bytes[1] % 256)

\* ------------------------------------------------------------------ fields
HeaderKeys == {"magic", "version", "page_size", "db_size", "primary_bit"}
SlotKeys == {"root", "vb", "txn", "aptr", "dirty"}
Fields ==
  {<<k, 0, 0>> : k \in HeaderKeys}
    \cup {<<k, s, 0>> : k \in SlotKeys, s \in Slots}
    \cup {<<"bitmap", r, i>> : r \in Regions, i \in PageIdx}

Hdr(k) == <<k, 0, 0>>
Fld(k, s) == <<k, s, 0>>
Bit(r, i) == <<"bitmap", r, i>>

ZeroOf(f) == IF f[1] = "root" THEN <<0, 0>> ELSE 0
ZeroImage == [f \in Fields |-> ZeroOf(f)]

\* A write list is a sequence of <<field, value>>, applied in order.
RECURSIVE WriteAll(_, _)
WriteAll(m, ws) ==
  IF ws = <<>> THEN m
  ELSE WriteAll([m EXCEPT ![ws[1][1]] = ws[1][2]], Tail(ws))

RECURSIVE PendAll(_, _)
PendAll(d, ws) ==
  IF ws = <<>> THEN d
  ELSE PendAll([d EXCEPT ![ws[1][1]] = @ \cup {ws[1][2]}], Tail(ws))

Flushed(m) == [f \in Fields |-> {m[f]}]

RECURSIVE SeqOfSet(_)
SeqOfSet(S) ==
  IF S = {} THEN <<>>
  ELSE LET x == CHOOSE y \in S : TRUE IN <<x>> \o SeqOfSet(S \ {x})

MetaFields == {f \in Fields : f[1] # "bitmap"}
TailFields == {f \in Fields : f[1] = "bitmap"}
ZeroWrites(F) == LET fs == SeqOfSet(F) IN [k \in 1 .. Len(fs) |-> <<fs[k], ZeroOf(fs[k])>>]

\* --------------------------------------------------------------- the state
VARIABLES
  pc,                      \* "closed", "init_flush1", "init_flush2", "idle",
                           \* "commit_flush1", "commit_flush2", "drop_flush1",
                           \* "drop_flush2", "aborted"
  in_drop,                 \* the running commit was called by Drop
  mmap,                    \* the mapping as the process sees it
  disk,                    \* per field, the values the backing file may hold
  allocated_since_commit,
  freed_since_commit,
  open_dirty_pages,
  read_from_secondary,
  page_mut,                \* live PageMut handles per page
  page_impl,               \* live PageImpl handles per page
  next_txn,                \* the next transaction id the caller hands out
  crashes,                 \* crashes so far
  g                        \* history of the run, read by the properties only

vars == <<pc, in_drop, mmap, disk, allocated_since_commit, freed_since_commit,
          open_dirty_pages, read_from_secondary, page_mut, page_impl, next_txn,
          crashes, g>>

\* ----------------------------------------------- the mapping and its flush
St(m, d) == [m |-> m, d |-> d]
Write(st, f, v) == St([st.m EXCEPT ![f] = v], [st.d EXCEPT ![f] = @ \cup {v}])
WriteSeq(st, ws) == St(WriteAll(st.m, ws), PendAll(st.d, ws))
flush(st) == St(st.m, Flushed(st.m))

\* ---------------------------------------------------------- metapage codec
get_primary(m) == IF m[Hdr("primary_bit")] = 0 THEN 0 ELSE 1
get_secondary(m) == IF m[Hdr("primary_bit")] = 0 THEN 1 ELSE 0

\* An Option is a set with at most one element.
get_root_page(m, s) ==
  LET num == from_be_bytes(m[Fld("root", s)])
  IN IF num.page_index = 0 THEN {} ELSE {<<num, m[Fld("vb", s)]>>}

slot_transaction_id(m, s) == m[Fld("txn", s)]
get_allocator_dirty(m, s) == m[Fld("dirty", s)] = 1
get_allocator_data(m, s) == m[Fld("aptr", s)]

set_root_page(st, s, page_number, valid_message_bytes) ==
  WriteSeq(st, << <<Fld("root", s), to_be_bytes(page_number)>>,
                  <<Fld("vb", s), valid_message_bytes>> >>)
set_last_committed_transaction_id(st, s, transaction_id) ==
  Write(st, Fld("txn", s), transaction_id)
set_allocator_data(st, s, region) == Write(st, Fld("aptr", s), region)
set_allocator_dirty(st, s, dirty) ==
  Write(st, Fld("dirty", s), IF dirty THEN 1 ELSE 0)

\* --------------------------------------------- PageAllocator (not in src/)
free_indices(m, r) == {i \in PageIdx : m[Bit(r, i)] = 0}
init_new(st, r) == WriteSeq(st, [k \in 1 .. UsablePages |-> <<Bit(r, k - 1), 0>>])
record_alloc(st, r, i) == Write(st, Bit(r, i), 1)
allocator_free(st, r, i) == Write(st, Bit(r, i), 0)
allocator_count_free_pages(m, r) == Cardinality(free_indices(m, r))

RECURSIVE record_alloc_all(_, _, _)
record_alloc_all(st, r, pages) ==
  IF pages = <<>> THEN st
  ELSE record_alloc_all(record_alloc(st, r, Head(pages)), r, Tail(pages))

RECURSIVE free_all(_, _, _)
free_all(st, r, pages) ==
  IF pages = <<>> THEN st
  ELSE free_all(allocator_free(st, r, Head(pages)), r, Tail(pages))

\* ------------------------------------------------------ TransactionalMemory
acquire_without_flush(st, s) ==
  IF ~get_allocator_dirty(st.m, s) THEN set_allocator_dirty(st, s, TRUE) ELSE st

acquire_mutable_page_allocator(st, s) ==
  IF ~get_allocator_dirty(st.m, s)
  THEN flush(set_allocator_dirty(st, s, TRUE))
  ELSE st

ReadPrimaryOnly(m, rfs) == get_primary(m)

ReadSlot(m, rfs) == IF rfs THEN get_secondary(m) ELSE get_primary(m)
get_primary_root_page == get_root_page(mmap, ReadSlot(mmap, read_from_secondary))
get_last_committed_transaction_id ==
  slot_transaction_id(mmap, ReadSlot(mmap, read_from_secondary))

NoHandles == [p \in PageIdx |-> 0]
RECURSIVE SumOver(_, _)
SumOver(f, S) ==
  IF S = {} THEN 0
  ELSE LET x == CHOOSE y \in S : TRUE IN f[x] + SumOver(f, S \ {x})
LiveHandles == SumOver(page_mut, PageIdx) + SumOver(page_impl, PageIdx)

\* ----------------------------------------------------- history of the run
\* What the caller handed in and got back; no action's code reads it.
Triple(pn, vb, txn) == [pn |-> pn, vb |-> vb, txn |-> txn]
NullTriple == Triple(null, 0, 0)
Opt(t) == IF t.pn.page_index = 0 THEN {} ELSE {<<t.pn, t.vb>>}
SlotTriple(m, s) ==
  Triple(from_be_bytes(m[Fld("root", s)]), m[Fld("vb", s)], m[Fld("txn", s)])

NoPub == [kind |-> "none", has_root |-> FALSE, t |-> NullTriple]
NoNd == [valid |-> FALSE, t |-> NullTriple]
NoPre == [bit |-> 0, t |-> NullTriple]

GhostInit ==
  [ last |-> "init",          \* the step that led to this state
    arg |-> 0,                \* the page index it took or returned
    ret |-> 0,                \* the number it returned
    alloc_kind |-> "none",    \* what allocate returned: "fresh", "live", "freed_committed"
    live |-> {},              \* pages returned by allocate and not freed since
    base_live |-> {},         \* the live pages of the last published state
    region0 |-> {},           \* free indices of the secondary region when the running
                              \* transaction began
    trail |-> "none",         \* count_free_pages; allocate...; rollback; count_free_pages
    count0 |-> 0,             \* what the first count_free_pages of the trail returned
    k |-> 0,                  \* allocate calls of the trail
    shadow |-> [s \in Slots |-> NullTriple],  \* what the caller wrote into each slot
    has_root |-> FALSE,       \* set_secondary_root_page was called on this secondary
    pub |-> NoPub,            \* what the last commit / non_durable_commit published
    nd |-> NoNd,              \* root of the outstanding non-durable commit, no set since
    nd_at_commit |-> NoNd,    \* nd when the last commit began
    drop_nd |-> NoNd,         \* what was published non-durably when Drop began
    durable |-> NullTriple,   \* the last durably committed state
    new |-> NullTriple,       \* the state the running commit publishes
    pre |-> NoPre,            \* primary_bit and primary slot before non_durable_commit
    ctx |-> "none",           \* where the last crash hit: "commit", "init_format",
                              \* "init_magic", "nd_outstanding", "other"
    old_c |-> NullTriple,     \* durable when the crash hit
    new_c |-> NullTriple,     \* new when the crash hit
    old_bit |-> 0,            \* primary_bit when the commit the crash hit began
    reopened |-> FALSE,       \* the manager was dropped and opened again since pub
    quiet |-> 0,              \* opens in a row with nothing but Drop between (at most 2)
    image0 |-> ZeroImage,     \* the mapping after the first of these opens
    size |-> 0,               \* layout computation: the length of the mapping
    request |-> 0,            \* layout computation: requested_page_size, 0 for None
    usable |-> 0,             \* layout computation: usable_pages
    layout |-> "none" ]       \* layout computation: "none", "ok", "failed"

Upd(base, over) ==
  [k \in DOMAIN base |-> IF k \in DOMAIN over THEN over[k] ELSE base[k]]

\* The history after a step `name`: what only describes the previous step is cleared.
Stepped(name) ==
  Upd(g, [last |-> name, arg |-> 0, ret |-> 0, alloc_kind |-> "none", trail |-> "none",
          count0 |-> 0, k |-> 0, pre |-> NoPre, ctx |-> "none", old_c |-> NullTriple, new_c |-> NullTriple,
          old_bit |-> 0, quiet |-> 0, image0 |-> ZeroImage,
          drop_nd |-> NoNd])

\* Taking and dropping a handle leaves the trail where it is.
TrailKept ==
  [trail |-> IF g.trail = "checked" THEN "none" ELSE g.trail,
   count0 |-> g.count0, k |-> g.k]

\* ---------------------------------------------------------------- Init
Init ==
  /\ pc = "closed"
  /\ in_drop = FALSE
  /\ mmap = ZeroImage
  /\ disk = Flushed(ZeroImage)
  /\ allocated_since_commit = {}
  /\ freed_since_commit = <<>>
  /\ open_dirty_pages = {}
  /\ read_from_secondary = FALSE
  /\ page_mut = NoHandles
  /\ page_impl = NoHandles
  /\ next_txn = 1
  /\ crashes = 0
  /\ g = GhostInit

Memory0 ==
  /\ allocated_since_commit' = {}
  /\ freed_since_commit' = <<>>
  /\ open_dirty_pages' = {}
  /\ read_from_secondary' = FALSE
  /\ page_mut' = NoHandles
  /\ page_impl' = NoHandles
  /\ in_drop' = FALSE

MemoryUnchanged ==
  UNCHANGED <<allocated_since_commit, freed_since_commit, open_dirty_pages,
              read_from_secondary, page_mut, page_impl, in_drop>>

\* -------------------------------------------------- TransactionalMemory::new
\* Lines 369-420: format a mapping that holds no magic number.
FormatImage(st) ==
  LET s1 == WriteSeq(st, ZeroWrites(MetaFields))
      s2 == WriteSeq(s1, ZeroWrites(TailFields))
      s3 == Write(Write(s2, Hdr("page_size"), PageSizeLog2), Hdr("db_size"), MmapLen)
      s4 == Write(s3, Hdr("primary_bit"), 1)
      a == get_secondary(s4.m)
      s5 == set_allocator_data(
              set_allocator_dirty(
                set_last_committed_transaction_id(set_root_page(s4, a, null, 0), a, 0),
                a, FALSE),
              a, 1)
      s6 == record_alloc(init_new(s5, 1), 1, DB_METADATA_PAGE)
      s7 == Write(s6, Hdr("primary_bit"), 0)
      b == get_secondary(s7.m)
      s8 == set_allocator_data(set_allocator_dirty(s7, b, FALSE), b, 2)
      s9 == record_alloc(init_new(s8, 2), 2, DB_METADATA_PAGE)
  IN Write(s9, Hdr("version"), 1)

\* Lines 429-448: the assertions every open ends with.
OpenChecks(m) ==
  /\ Pow2(m[Hdr("page_size")]) = PageSize
  /\ m[Hdr("db_size")] = MmapLen
  /\ ~get_allocator_dirty(m, get_primary(m))
  /\ ~get_allocator_dirty(m, get_secondary(m))

\* The history a freshly opened manager starts from: what is on the mapping.
Opened(m) ==
  Upd(g, [last |-> "open", arg |-> 0, ret |-> 0, alloc_kind |-> "none",
          trail |-> "fresh", count0 |-> 0, k |-> 0, pre |-> NoPre,
          shadow |-> [s \in Slots |-> SlotTriple(m, s)],
          has_root |-> FALSE, nd |-> NoNd, nd_at_commit |-> NoNd,
          durable |-> SlotTriple(m, get_primary(m)), new |-> NullTriple,
          base_live |-> g.live,
          region0 |-> free_indices(m, get_allocator_data(m, get_secondary(m))),
          reopened |-> TRUE,
          quiet |-> IF g.quiet >= 1 THEN 2 ELSE 1,
          image0 |-> IF g.quiet >= 1 THEN g.image0 ELSE m])

FinishOpen(m) ==
  /\ pc' = IF OpenChecks(m) THEN "idle" ELSE "aborted"
  /\ g' = Opened(m)
  /\ Memory0
  /\ UNCHANGED <<next_txn, crashes>>

OpenInit ==
  /\ pc = "closed"
  /\ mmap[Hdr("magic")] # 1
  /\ PageSize >= DB_METAPAGE_SIZE
  /\ LET st == FormatImage(St(mmap, disk))
     IN /\ mmap' = st.m
        /\ disk' = st.d
  /\ pc' = "init_flush1"
  /\ g' = Stepped("format")
  /\ Memory0
  /\ UNCHANGED <<next_txn, crashes>>

MagicWritesNoFlush == Write(St(mmap, disk), Hdr("magic"), 1)

\* Lines 422-425: flush, then the magic number.
MagicWrites == Write(flush(St(mmap, disk)), Hdr("magic"), 1)

InitFlush1 ==
  /\ pc = "init_flush1"
  /\ LET st == MagicWrites
     IN /\ mmap' = st.m
        /\ disk' = st.d
  /\ pc' = "init_flush2"
  /\ g' = Stepped("magic")
  /\ Memory0
  /\ UNCHANGED <<next_txn, crashes>>

InitFlush2 ==
  /\ pc = "init_flush2"
  /\ mmap' = mmap
  /\ disk' = Flushed(mmap)
  /\ FinishOpen(mmap)

OpenExisting ==
  /\ pc = "closed"
  /\ mmap[Hdr("magic")] = 1
  /\ UNCHANGED <<mmap, disk>>
  /\ FinishOpen(mmap)

\* ------------------------------------------------------------ page handles
Idle == pc = "idle"

\* Lines 594-606.  The assertion aborts the process.
get_page(p) ==
  /\ Idle
  /\ LiveHandles < MaxHandles
  /\ IF p \in open_dirty_pages
     THEN /\ pc' = "aborted"
          /\ page_impl' = page_impl
          /\ g' = Stepped("abort")
     ELSE /\ pc' = pc
          /\ page_impl' = [page_impl EXCEPT ![p] = @ + 1]
          /\ g' = Upd(Stepped("get_page"),
                      [arg |-> p] @@ TrailKept)
  /\ UNCHANGED <<in_drop, mmap, disk, allocated_since_commit, freed_since_commit,
                 open_dirty_pages, read_from_secondary, page_mut, next_txn, crashes>>

\* Lines 608-626.
get_page_mut(p) ==
  /\ Idle
  /\ LiveHandles < MaxHandles
  /\ open_dirty_pages' = open_dirty_pages \cup {p}
  /\ page_mut' = [page_mut EXCEPT ![p] = @ + 1]
  /\ g' = Upd(Stepped("handle"), TrailKept)
  /\ UNCHANGED <<pc, in_drop, mmap, disk, allocated_since_commit, freed_since_commit,
                 read_from_secondary, page_impl, next_txn, crashes>>

\* Lines 316-320.
drop_page_mut(p) ==
  /\ Idle
  /\ page_mut[p] > 0
  /\ page_mut' = [page_mut EXCEPT ![p] = @ - 1]
  /\ open_dirty_pages' = open_dirty_pages \ {p}
  /\ g' = Upd(Stepped("handle"), TrailKept)
  /\ UNCHANGED <<pc, in_drop, mmap, disk, allocated_since_commit, freed_since_commit,
                 read_from_secondary, page_impl, next_txn, crashes>>

\* PageImpl has no Drop code: the borrow ends.
drop_page_impl(p) ==
  /\ Idle
  /\ page_impl[p] > 0
  /\ page_impl' = [page_impl EXCEPT ![p] = @ - 1]
  /\ g' = Upd(Stepped("handle"), TrailKept)
  /\ UNCHANGED <<pc, in_drop, mmap, disk, allocated_since_commit, freed_since_commit,
                 open_dirty_pages, read_from_secondary, page_mut, next_txn, crashes>>

\* ---------------------------------------------------------------- allocate
AllocKind(i) ==
  IF i \in g.live THEN "live"
  ELSE IF i \in g.base_live THEN "freed_committed"
  ELSE "fresh"

\* Lines 694-725.
allocate(i) ==
  /\ Idle
  /\ LiveHandles < MaxHandles
  /\ LET a == get_secondary(mmap)
         s1 == acquire_mutable_page_allocator(St(mmap, disk), a)
         r == get_allocator_data(s1.m, a)
         s2 == record_alloc(s1, r, i)
     IN /\ i \in free_indices(s1.m, r)
        /\ mmap' = s2.m
        /\ disk' = s2.d
  /\ allocated_since_commit' = allocated_since_commit \cup {i}
  /\ open_dirty_pages' = open_dirty_pages \cup {i}
  /\ page_mut' = [page_mut EXCEPT ![i] = @ + 1]
  /\ g' = Upd(Stepped("allocate"),
              [arg |-> i, alloc_kind |-> AllocKind(i), live |-> g.live \cup {i},
               trail |-> IF g.trail \in {"counted", "allocs"} THEN "allocs" ELSE "none",
               count0 |-> IF g.trail \in {"counted", "allocs"} THEN g.count0 ELSE 0,
               k |-> IF g.trail \in {"counted", "allocs"} THEN g.k + 1 ELSE 0])
  /\ UNCHANGED <<pc, in_drop, freed_since_commit, read_from_secondary, page_impl, next_txn, crashes>>

\* A first-fit allocator: alloc hands out the lowest free index.
first_fit(i) ==
  /\ Idle
  /\ \A j \in free_indices(mmap, get_allocator_data(mmap, get_secondary(mmap))) : i <= j

\* Line 702: alloc returns None and unwrap panics.
allocate_out_of_space ==
  /\ Idle
  /\ LiveHandles < MaxHandles
  /\ LET a == get_secondary(mmap)
         s1 == acquire_mutable_page_allocator(St(mmap, disk), a)
         r == get_allocator_data(s1.m, a)
     IN /\ free_indices(s1.m, r) = {}
        /\ mmap' = s1.m
        /\ disk' = s1.d
  /\ pc' = "aborted"
  /\ g' = Stepped("allocate_panic")
  /\ UNCHANGED <<in_drop, allocated_since_commit, freed_since_commit, open_dirty_pages,
                 read_from_secondary, page_mut, page_impl, next_txn, crashes>>

\* Lines 662-671.  The caller frees a page it holds.
free(p) ==
  /\ Idle
  /\ p \in g.live
  /\ Len(freed_since_commit) < MaxFreed
  /\ LET a == get_secondary(mmap)
         s1 == acquire_mutable_page_allocator(St(mmap, disk), a)
         s2 == allocator_free(s1, get_allocator_data(s1.m, a), p)
     IN /\ mmap' = s2.m
        /\ disk' = s2.d
  /\ freed_since_commit' = Append(freed_since_commit, p)
  /\ g' = Upd(Stepped("free"), [live |-> g.live \ {p}])
  /\ UNCHANGED <<pc, in_drop, allocated_since_commit, open_dirty_pages,
                 read_from_secondary, page_mut, page_impl, next_txn, crashes>>

\* Lines 674-687.
free_if_uncommitted(p) ==
  /\ Idle
  /\ p \in g.live \/ p \notin allocated_since_commit
  /\ IF p \in allocated_since_commit
     THEN LET a == get_secondary(mmap)
              s1 == acquire_mutable_page_allocator(St(mmap, disk), a)
              s2 == allocator_free(s1, get_allocator_data(s1.m, a), p)
          IN /\ mmap' = s2.m
             /\ disk' = s2.d
             /\ allocated_since_commit' = allocated_since_commit \ {p}
             /\ g' = Upd(Stepped("free_if_uncommitted"),
                         [live |-> g.live \ {p}])
     ELSE /\ UNCHANGED <<mmap, disk, allocated_since_commit>>
          /\ g' = Stepped("free_if_uncommitted")
  /\ UNCHANGED <<pc, in_drop, freed_since_commit, open_dirty_pages,
                 read_from_secondary, page_mut, page_impl, next_txn, crashes>>

\* Lines 656-660.
\* The roots the caller hands in: <<page number, valid_message_bytes>>.  Two
\* roots that differ in the page number differ in valid_message_bytes too.
RootInputs ==
  {<<PageNumber(i, o), (i - 1) + o>> : i \in {j \in UserPages : j <= MaxRootIndex},
                                       o \in 0 .. MaxOrder}

set_secondary_root_page(root_page, valid_message_bytes) ==
  /\ Idle
  /\ LET a == get_secondary(mmap)
         s1 == set_root_page(St(mmap, disk), a, root_page, valid_message_bytes)
     IN /\ mmap' = s1.m
        /\ disk' = s1.d
        /\ g' = Upd(Stepped("set_secondary_root_page"),
                    [shadow |-> [g.shadow EXCEPT ![a] =
                                   Triple(root_page, valid_message_bytes, @.txn)],
                     has_root |-> TRUE, nd |-> NoNd])
  /\ UNCHANGED <<pc, in_drop, allocated_since_commit, freed_since_commit,
                 open_dirty_pages, read_from_secondary, page_mut, page_impl, next_txn, crashes>>

\* Lines 727-738.
count_free_pages ==
  /\ Idle
  /\ LET a == get_secondary(mmap)
         s1 == acquire_mutable_page_allocator(St(mmap, disk), a)
         count == allocator_count_free_pages(s1.m, get_allocator_data(s1.m, a))
     IN /\ mmap' = s1.m
        /\ disk' = s1.d
        /\ g' = Upd(Stepped("count_free_pages"),
                    [ret |-> count,
                     trail |-> IF g.trail = "fresh" THEN "counted"
                               ELSE IF g.trail = "rolled" THEN "checked"
                               ELSE "none",
                     count0 |-> IF g.trail = "fresh" THEN count
                                ELSE IF g.trail = "rolled" THEN g.count0
                                ELSE 0,
                     k |-> IF g.trail = "rolled" THEN g.k ELSE 0])
  /\ UNCHANGED <<pc, in_drop, allocated_since_commit, freed_since_commit,
                 open_dirty_pages, read_from_secondary, page_mut, page_impl, next_txn, crashes>>

\* ------------------------------------------------------------------ commit
\* Lines 496-501: the assertion, then the transaction id goes to the secondary.
CommitWrites(transaction_id) ==
  set_last_committed_transaction_id(St(mmap, disk), get_secondary(mmap), transaction_id)

CommitBegun(transaction_id) ==
  LET a == get_secondary(mmap)
  IN [shadow |-> [g.shadow EXCEPT ![a].txn = transaction_id],
      new |-> Triple(g.shadow[a].pn, g.shadow[a].vb, transaction_id),
      nd_at_commit |-> g.nd, nd |-> NoNd]

commit_begin ==
  /\ Idle
  /\ next_txn <= MaxTxn
  /\ IF open_dirty_pages # {}
     THEN /\ pc' = "aborted"
          /\ UNCHANGED <<mmap, disk>>
          /\ g' = Stepped("abort")
     ELSE /\ pc' = "commit_flush1"
          /\ mmap' = CommitWrites(next_txn).m
          /\ disk' = CommitWrites(next_txn).d
          /\ g' = Upd(Stepped("commit_begin"), CommitBegun(next_txn))
  /\ next_txn' = next_txn + 1
  /\ crashes' = crashes
  /\ MemoryUnchanged

FlipWritesKeepDirty(st) ==
  LET next == IF st.m[Hdr("primary_bit")] = 0 THEN 1 ELSE 0
      s2 == Write(st, Hdr("primary_bit"), next)
  IN set_allocator_dirty(s2, get_secondary(s2.m), TRUE)

FlipWritesKeepBit(st) ==
  LET s1 == set_allocator_dirty(st, get_secondary(st.m), FALSE)
  IN set_allocator_dirty(s1, get_primary(s1.m), TRUE)

\* Lines 503-519: flush, then three writes with no flush between them.
FlipWrites(st) ==
  LET next == IF st.m[Hdr("primary_bit")] = 0 THEN 1 ELSE 0
      s1 == set_allocator_dirty(st, get_secondary(st.m), FALSE)
      s2 == Write(s1, Hdr("primary_bit"), next)
  IN set_allocator_dirty(s2, get_secondary(s2.m), TRUE)

CommitFlipNoFlush == FlipWrites(St(mmap, disk))

CommitFlip == FlipWrites(flush(St(mmap, disk)))

commit_flush1 ==
  /\ pc = "commit_flush1"
  /\ LET st == CommitFlip
     IN /\ mmap' = st.m
        /\ disk' = st.d
  /\ pc' = "commit_flush2"
  /\ g' = Upd(Stepped("commit_flip"), [drop_nd |-> g.drop_nd])
  /\ UNCHANGED <<next_txn, crashes>>
  /\ MemoryUnchanged

\* Lines 520-533: flush, then bring the new secondary's allocator region up to date.
ReplayWrites(st) ==
  LET a == get_secondary(st.m)
      s1 == acquire_mutable_page_allocator(st, a)
      r == get_allocator_data(s1.m, a)
      s2 == record_alloc_all(s1, r, SeqOfSet(allocated_since_commit))
  IN free_all(s2, r, freed_since_commit)

commit_flush2 ==
  /\ pc = "commit_flush2"
  /\ LET st == ReplayWrites(flush(St(mmap, disk)))
     IN /\ mmap' = st.m
        /\ disk' = st.d
  /\ allocated_since_commit' = {}
  /\ freed_since_commit' = <<>>
  /\ read_from_secondary' = FALSE
  /\ pc' = IF in_drop THEN "drop_flush1" ELSE "idle"
  /\ g' = Upd(Stepped(IF in_drop THEN "drop_commit" ELSE "commit"),
              [pub |-> [kind |-> IF in_drop THEN "drop_commit" ELSE "commit",
                        has_root |-> g.has_root, t |-> g.new],
               durable |-> g.new, has_root |-> FALSE, base_live |-> g.live,
               region0 |-> LET m == ReplayWrites(flush(St(mmap, disk))).m
                           IN free_indices(m, get_allocator_data(m, get_secondary(m))),
               trail |-> "fresh", reopened |-> FALSE, drop_nd |-> g.drop_nd])
  /\ UNCHANGED <<in_drop, open_dirty_pages, page_mut, page_impl, next_txn, crashes>>

\* ------------------------------------------------------ non_durable_commit
NonDurableWritesNoFlush(transaction_id) ==
  LET s1 == set_last_committed_transaction_id(St(mmap, disk), get_secondary(mmap),
                                              transaction_id)
      a == get_primary(s1.m)
      s2 == IF ~get_allocator_dirty(s1.m, a)
            THEN set_allocator_dirty(s1, a, TRUE)
            ELSE s1
  IN record_alloc_all(s2, get_allocator_data(s2.m, a), SeqOfSet(allocated_since_commit))

\* Lines 545-566.
NonDurableWrites(transaction_id) ==
  LET s1 == set_last_committed_transaction_id(St(mmap, disk), get_secondary(mmap),
                                              transaction_id)
      a == get_primary(s1.m)
      s2 == IF ~get_allocator_dirty(s1.m, a)
            THEN flush(set_allocator_dirty(s1, a, TRUE))
            ELSE s1
      s3 == acquire_mutable_page_allocator(s2, a)
  IN record_alloc_all(s3, get_allocator_data(s3.m, a), SeqOfSet(allocated_since_commit))

non_durable_commit ==
  /\ Idle
  /\ next_txn <= MaxTxn
  /\ next_txn' = next_txn + 1
  /\ crashes' = crashes
  /\ IF open_dirty_pages # {}
     THEN /\ pc' = "aborted"
          /\ UNCHANGED <<mmap, disk, allocated_since_commit, read_from_secondary>>
          /\ g' = Stepped("abort")
     ELSE /\ mmap' = NonDurableWrites(next_txn).m
          /\ disk' = NonDurableWrites(next_txn).d
          /\ allocated_since_commit' = {}
          /\ IF freed_since_commit # <<>>
             THEN /\ pc' = "aborted"
                  /\ UNCHANGED read_from_secondary
                  /\ g' = Stepped("abort")
             ELSE /\ pc' = pc
                  /\ read_from_secondary' = TRUE
                  /\ g' = LET a == get_secondary(mmap)
                              t == Triple(g.shadow[a].pn, g.shadow[a].vb, next_txn)
                          IN Upd(Stepped("non_durable_commit"),
                                 [shadow |-> [g.shadow EXCEPT ![a].txn = next_txn],
                                  pub |-> [kind |-> "ndc", has_root |-> g.has_root, t |-> t],
                                  nd |-> [valid |-> g.has_root, t |-> t],
                                  pre |-> [bit |-> mmap[Hdr("primary_bit")],
                                           t |-> SlotTriple(mmap, get_primary(mmap))],
                                  base_live |-> g.live, trail |-> "fresh",
                                  region0 |-> LET m == NonDurableWrites(next_txn).m
                                              IN free_indices(m,
                                                   get_allocator_data(m, get_secondary(m))),
                                  reopened |-> FALSE])
  /\ UNCHANGED <<in_drop, freed_since_commit, open_dirty_pages, page_mut, page_impl>>

\* ------------------------------------------------ rollback_uncommited_writes
RollbackWritesKeepAllocated ==
  LET a == get_secondary(mmap)
      s1 == acquire_mutable_page_allocator(St(mmap, disk), a)
  IN record_alloc_all(s1, get_allocator_data(s1.m, a), freed_since_commit)

\* Lines 574-592.
RollbackWrites ==
  LET a == get_secondary(mmap)
      s1 == acquire_mutable_page_allocator(St(mmap, disk), a)
      r == get_allocator_data(s1.m, a)
      s2 == free_all(s1, r, SeqOfSet(allocated_since_commit))
  IN record_alloc_all(s2, r, freed_since_commit)

rollback_uncommited_writes ==
  /\ Idle
  /\ IF open_dirty_pages # {}
     THEN /\ pc' = "aborted"
          /\ UNCHANGED <<mmap, disk, allocated_since_commit, freed_since_commit>>
          /\ g' = Stepped("abort")
     ELSE /\ pc' = pc
          /\ mmap' = RollbackWrites.m
          /\ disk' = RollbackWrites.d
          /\ allocated_since_commit' = {}
          /\ freed_since_commit' = <<>>
          /\ g' = Upd(Stepped("rollback"),
                      [live |-> g.base_live,
                       region0 |-> LET m == RollbackWrites.m
                                   IN free_indices(m,
                                        get_allocator_data(m, get_secondary(m))),
                       trail |-> IF g.trail \in {"counted", "allocs"}
                                 THEN "rolled" ELSE "none",
                       count0 |-> IF g.trail \in {"counted", "allocs"}
                                  THEN g.count0 ELSE 0,
                       k |-> IF g.trail \in {"counted", "allocs"} THEN g.k ELSE 0])
  /\ UNCHANGED <<in_drop, open_dirty_pages, read_from_secondary, page_mut, page_impl,
                 next_txn, crashes>>

\* -------------------------------------------- Drop for TransactionalMemory
\* Lines 744-748.  Every handle borrows the manager, so none is alive here.
drop_begin ==
  /\ Idle
  /\ LiveHandles = 0
  /\ IF read_from_secondary
     THEN /\ IF open_dirty_pages # {}
             THEN /\ pc' = "aborted"
                  /\ UNCHANGED <<mmap, disk>>
                  /\ g' = Stepped("abort")
             ELSE /\ pc' = "commit_flush1"
                  /\ mmap' = CommitWrites(get_last_committed_transaction_id).m
                  /\ disk' = CommitWrites(get_last_committed_transaction_id).d
                  /\ g' = Upd(Upd(Stepped("drop_begin"),
                                  CommitBegun(get_last_committed_transaction_id)),
                              [drop_nd |-> [valid |-> TRUE, t |-> g.pub.t]])
          /\ in_drop' = TRUE
     ELSE /\ pc' = "drop_flush1"
          /\ UNCHANGED <<mmap, disk, in_drop>>
          /\ g' = Upd(Stepped("drop_begin"),
                      [live |-> g.base_live, quiet |-> g.quiet, image0 |-> g.image0])
  /\ UNCHANGED <<allocated_since_commit, freed_since_commit, open_dirty_pages,
                 read_from_secondary, page_mut, page_impl, next_txn, crashes>>

\* Lines 749-752.
DropWritesDirty ==
  set_allocator_dirty(flush(St(mmap, disk)), get_secondary(mmap), TRUE)

DropWrites ==
  LET s1 == flush(St(mmap, disk))
  IN set_allocator_dirty(s1, get_secondary(s1.m), FALSE)

drop_flush1 ==
  /\ pc = "drop_flush1"
  /\ mmap' = DropWrites.m
  /\ disk' = DropWrites.d
  /\ pc' = "drop_flush2"
  /\ g' = Upd(Stepped("drop_clear"),
              [drop_nd |-> g.drop_nd, quiet |-> g.quiet, image0 |-> g.image0])
  /\ UNCHANGED <<next_txn, crashes>>
  /\ MemoryUnchanged

\* Line 753.
drop_flush2 ==
  /\ pc = "drop_flush2"
  /\ mmap' = mmap
  /\ disk' = Flushed(mmap)
  /\ pc' = "closed"
  /\ g' = Upd(Stepped("dropped"),
              [drop_nd |-> g.drop_nd, quiet |-> g.quiet, image0 |-> g.image0])
  /\ Memory0
  /\ UNCHANGED <<next_txn, crashes>>

\* ------------------------------------------------------------------- crash
\* The process dies.  Every field keeps one of the values it may hold on disk.
RECURSIVE Images(_, _)
Images(P, m) ==
  IF P = {} THEN {m}
  ELSE LET f == CHOOSE x \in P : TRUE
       IN UNION {Images(P \ {f}, [m EXCEPT ![f] = v]) : v \in disk[f]}

Unflushed == {f \in Fields : disk[f] # {mmap[f]}}

crash ==
  /\ pc # "closed"
  /\ crashes < MaxCrashes
  /\ crashes' = crashes + 1
  /\ \E d \in Images(Unflushed, mmap) :
       /\ mmap' = d
       /\ disk' = Flushed(d)
       /\ g' = Upd(Stepped("crash"),
                   [ctx |-> IF pc \in {"commit_flush1", "commit_flush2"} THEN "commit"
                            ELSE IF pc = "init_flush1" THEN "init_format"
                            ELSE IF pc = "init_flush2" THEN "init_magic"
                            ELSE IF pc = "idle" /\ read_from_secondary
                                 THEN "nd_outstanding"
                            ELSE "other",
                    old_c |-> g.durable, new_c |-> g.new,
                    old_bit |-> IF pc = "commit_flush2"
                                THEN 1 - mmap[Hdr("primary_bit")]
                                ELSE mmap[Hdr("primary_bit")],
                    live |-> {}, base_live |-> {}, pub |-> NoPub, nd |-> NoNd,
                    nd_at_commit |-> NoNd, has_root |-> FALSE,
                    shadow |-> [s \in Slots |-> SlotTriple(d, s)],
                    durable |-> SlotTriple(d, get_primary(d)), new |-> NullTriple,
                    reopened |-> FALSE])
  /\ pc' = "closed"
  /\ Memory0
  /\ UNCHANGED next_txn

\* -------------------------------------------------------------------- Next
\* Every operation, in any order.
Next ==
  \/ OpenInit
  \/ InitFlush1
  \/ InitFlush2
  \/ OpenExisting
  \/ \E p \in HandlePages : get_page(p)
  \/ \E p \in HandlePages : get_page_mut(p)
  \/ \E p \in PageIdx : drop_page_mut(p)
  \/ \E p \in PageIdx : drop_page_impl(p)
  \/ \E i \in PageIdx : allocate(i)
  \/ allocate_out_of_space
  \/ \E p \in UserPages : free(p)
  \/ \E p \in UserPages : free_if_uncommitted(p)
  \/ \E r \in RootInputs : set_secondary_root_page(r[1], r[2])
  \/ count_free_pages
  \/ commit_begin
  \/ commit_flush1
  \/ commit_flush2
  \/ non_durable_commit
  \/ rollback_uncommited_writes
  \/ drop_begin
  \/ drop_flush1
  \/ drop_flush2
  \/ crash

Spec == Init /\ [][Next]_vars

\* The commit protocol: roots, transaction ids, flags, flushes, Drop and crashes.
\* free, free_if_uncommitted, rollback_uncommited_writes and count_free_pages reach
\* the metapage only through acquire_mutable_page_allocator, as allocate does.
\* Which free page alloc hands out is of no concern here: it is the lowest.
NextTxn ==
  \/ OpenInit
  \/ InitFlush1
  \/ InitFlush2
  \/ OpenExisting
  \/ \E p \in PageIdx : drop_page_mut(p)
  \/ \E i \in PageIdx : first_fit(i) /\ allocate(i)
  \/ \E r \in RootInputs : set_secondary_root_page(r[1], r[2])
  \/ commit_begin
  \/ commit_flush1
  \/ commit_flush2
  \/ non_durable_commit
  \/ drop_begin
  \/ drop_flush1
  \/ drop_flush2
  \/ crash

SpecTxn == Init /\ [][NextTxn]_vars

\* Page handles.
NextPages ==
  \/ OpenInit
  \/ InitFlush1
  \/ InitFlush2
  \/ \E p \in HandlePages : get_page(p)
  \/ \E p \in HandlePages : get_page_mut(p)
  \/ \E p \in PageIdx : drop_page_mut(p)
  \/ \E p \in PageIdx : drop_page_impl(p)
  \/ \E i \in PageIdx : allocate(i)
  \/ \E p \in UserPages : free(p)
  \/ commit_begin
  \/ commit_flush1
  \/ commit_flush2
  \/ rollback_uncommited_writes

SpecPages == Init /\ [][NextPages]_vars

\* Allocation: the two allocator regions and the sets of the running transaction.
NextAlloc ==
  \/ OpenInit
  \/ InitFlush1
  \/ InitFlush2
  \/ OpenExisting
  \/ \E p \in PageIdx : drop_page_mut(p)
  \/ \E i \in PageIdx : allocate(i)
  \/ allocate_out_of_space
  \/ \E p \in UserPages : free(p)
  \/ \E p \in UserPages : free_if_uncommitted(p)
  \/ count_free_pages
  \/ commit_begin
  \/ commit_flush1
  \/ commit_flush2
  \/ non_durable_commit
  \/ rollback_uncommited_writes
  \/ drop_begin
  \/ drop_flush1
  \/ drop_flush2

SpecAlloc == Init /\ [][NextAlloc]_vars

\* Every operation of an open manager, with a first-fit alloc and roots of
\* order 0; no Drop, no crash.
NextOps ==
  \/ OpenInit
  \/ InitFlush1
  \/ InitFlush2
  \/ \E p \in PageIdx : drop_page_mut(p)
  \/ \E i \in PageIdx : first_fit(i) /\ allocate(i)
  \/ \E p \in UserPages : free(p)
  \/ \E p \in UserPages : free_if_uncommitted(p)
  \/ \E r \in {x \in RootInputs : x[1].page_order = 0} : set_secondary_root_page(r[1], r[2])
  \/ count_free_pages
  \/ commit_begin
  \/ commit_flush1
  \/ commit_flush2
  \/ non_durable_commit
  \/ rollback_uncommited_writes

SpecOps == Init /\ [][NextOps]_vars

\* Every operation of an open manager with a first-fit alloc and roots of order 0,
\* each page handle dropped before the next call, then Drop, and the next open
\* while a transaction id is left to use; no crash, no abort.
NextDrop ==
  \/ OpenInit
  \/ InitFlush1
  \/ InitFlush2
  \/ next_txn <= MaxTxn /\ OpenExisting
  \/ \E p \in PageIdx : drop_page_mut(p)
  \/ \E i \in PageIdx : LiveHandles = 0 /\ first_fit(i) /\ allocate(i)
  \/ \E p \in UserPages : LiveHandles = 0 /\ free(p)
  \/ \E p \in UserPages : LiveHandles = 0 /\ free_if_uncommitted(p)
  \/ \E r \in {x \in RootInputs : x[1].page_order = 0} :
        LiveHandles = 0 /\ set_secondary_root_page(r[1], r[2])
  \/ LiveHandles = 0 /\ count_free_pages
  \/ LiveHandles = 0 /\ commit_begin
  \/ commit_flush1
  \/ commit_flush2
  \/ LiveHandles = 0 /\ non_durable_commit
  \/ LiveHandles = 0 /\ rollback_uncommited_writes
  \/ drop_begin
  \/ drop_flush1
  \/ drop_flush2

SpecDrop == Init /\ [][NextDrop]_vars

\* Transactions of allocate, free and free_if_uncommitted calls, each ended by commit.
NextReplay ==
  \/ OpenInit
  \/ InitFlush1
  \/ InitFlush2
  \/ \E p \in PageIdx : drop_page_mut(p)
  \/ \E i \in PageIdx : allocate(i)
  \/ \E p \in UserPages : free(p)
  \/ \E p \in UserPages : free_if_uncommitted(p)
  \/ commit_begin
  \/ commit_flush1
  \/ commit_flush2

SpecReplay == Init /\ [][NextReplay]_vars

\* ------------------------------------------------ the layout new() computes
\* Lines 361-375 and 384 for a mapping of g.size bytes: usable_pages comes from
\* the page size of the system, the pages are laid out with the page size in use.
Requests == {0, PageSize \div 2, PageSize, 2 * PageSize}

IsPowerOfTwo(n) == \E e \in 0 .. 16 : n = Pow2(e)

LayoutPageSize(request) == IF request = 0 THEN PageSize ELSE request

LayoutFails(size, request) ==
  LET page_size == LayoutPageSize(request)
      usable_pages == calculate_usable_pages(size)
  IN \/ page_size < DB_METAPAGE_SIZE
     \/ ~IsPowerOfTwo(page_size)
     \/ usable_pages * page_size > size
     \/ 2 * required_space(usable_pages) > size

InitLayout ==
  /\ pc = "closed"
  /\ in_drop = FALSE
  /\ mmap = ZeroImage
  /\ disk = Flushed(ZeroImage)
  /\ allocated_since_commit = {}
  /\ freed_since_commit = <<>>
  /\ open_dirty_pages = {}
  /\ read_from_secondary = FALSE
  /\ page_mut = NoHandles
  /\ page_impl = NoHandles
  /\ next_txn = 1
  /\ crashes = 0
  /\ \E size \in MinSize .. MaxSize, request \in Requests :
       g = Upd(GhostInit, [size |-> size, request |-> request])

new_layout ==
  /\ pc = "closed"
  /\ g.layout = "none"
  /\ g' = Upd(g, [last |-> "layout",
                  usable |-> calculate_usable_pages(g.size),
                  layout |-> IF LayoutFails(g.size, g.request) THEN "failed" ELSE "ok"])
  /\ UNCHANGED <<pc, in_drop, mmap, disk, allocated_since_commit, freed_since_commit,
                 open_dirty_pages, read_from_secondary, page_mut, page_impl, next_txn,
                 crashes>>

NextLayout == new_layout

SpecLayout == InitLayout /\ [][NextLayout]_vars

\* ================================================================= claims
PrimaryTriple == SlotTriple(mmap, get_primary(mmap))
Observed(t) ==
  /\ get_primary_root_page = Opt(t)
  /\ get_last_committed_transaction_id = t.txn

\* C1: after a crash during commit the slot the on-disk primary_bit selects holds
\* the root, valid bytes and transaction id of the last durably committed state or
\* those of the committing transaction, never a mixture; a reopen that succeeds
\* shows one of the two.
C1_CommitAtomic ==
  /\ (g.last = "crash" /\ g.ctx = "commit") => PrimaryTriple \in {g.old_c, g.new_c}
  /\ (g.last = "open" /\ g.ctx = "commit" /\ pc = "idle")
       => Observed(g.old_c) \/ Observed(g.new_c)

C1_Witness ==
  /\ g.last = "open" /\ g.ctx = "commit" /\ pc = "idle"
  /\ g.new_c # g.old_c
  /\ g.new_c.pn # g.old_c.pn
  /\ g.old_c.pn # null
  /\ PrimaryTriple = g.new_c

\* C2: after set_secondary_root_page(pn, vb) with pn.index # 0 and a commit(t),
\* get_primary_root_page returns (pn, vb) and get_last_committed_transaction_id
\* returns t, in the same manager and after it is dropped and opened again.
C2_CommitPublishes ==
  (pc = "idle" /\ g.pub.kind = "commit" /\ g.pub.has_root /\ g.pub.t.pn.page_index # 0)
    => /\ get_primary_root_page = {<<g.pub.t.pn, g.pub.t.vb>>}
       /\ get_last_committed_transaction_id = g.pub.t.txn

C2_Witness ==
  /\ pc = "idle" /\ g.last = "open" /\ g.reopened
  /\ g.pub.kind = "commit" /\ g.pub.has_root
  /\ g.pub.t.pn.page_order = 1
  /\ g.pub.t.txn = 2

\* C3: after set_secondary_root_page(r, vb) and non_durable_commit(t) the manager
\* shows (r, vb) and t; after a following commit with no further
\* set_secondary_root_page it still shows (r, vb).
C3_NonDurableVisible ==
  /\ (g.last = "non_durable_commit" /\ g.pub.has_root) => Observed(g.pub.t)
  /\ (g.last = "commit" /\ g.nd_at_commit.valid)
       => get_primary_root_page = Opt(g.nd_at_commit.t)

C3_Witness ==
  /\ g.last = "commit" /\ g.nd_at_commit.valid
  /\ g.durable.pn # null

\* C4: Drop with a non-durable commit outstanding commits it durably: after the
\* reopen, open succeeds and the manager shows the root and the id that the
\* non-durable commit published.
C4_DropCommitsNonDurable ==
  (g.last = "open" /\ g.drop_nd.valid) => (pc = "idle" /\ Observed(g.drop_nd.t))

\* C5: non_durable_commit leaves primary_bit and the primary slot's root, valid
\* bytes and transaction id alone; a crash while the non-durable commit is
\* outstanding leaves the last durably committed state in the on-disk primary
\* slot, with that slot's allocator_state_dirty = 1.
C5_NonDurableKeepsPrimary ==
  /\ g.last = "non_durable_commit"
       => (mmap[Hdr("primary_bit")] = g.pre.bit /\ PrimaryTriple = g.pre.t)
  /\ (g.last = "crash" /\ g.ctx = "nd_outstanding")
       => (PrimaryTriple = g.old_c /\ get_allocator_dirty(mmap, get_primary(mmap)))

C5_Witness ==
  /\ g.last = "crash" /\ g.ctx = "nd_outstanding"
  /\ g.old_c.pn # null
  /\ g.old_c.txn = 1

\* C6: get_page(pn) never returns a handle while a mutable handle to pn, obtained
\* from allocate or get_page_mut and not yet dropped, is live.
C6_GetPageFailsWhileMutable ==
  g.last = "get_page" => page_mut[g.arg] = 0

\* C7: in no state do two live mutable handles to one page exist, nor a live
\* mutable handle together with a live immutable handle to the same page.
C7_MutableExclusive ==
  \A p \in PageIdx : page_mut[p] <= 1 /\ (page_mut[p] = 0 \/ page_impl[p] = 0)

\* C8: allocate never returns page index 0 nor a page that is live (returned by
\* an earlier allocate and not freed since).
C8_AllocateFresh ==
  g.last = "allocate" => (g.arg # DB_METADATA_PAGE /\ g.alloc_kind # "live")

\* C9: allocate never returns a page of the committed state that was released
\* with free in the running transaction, before that transaction commits.
C9_FreedStaysUntilCommit ==
  g.last = "allocate" => g.alloc_kind # "freed_committed"

\* C10: count_free_pages, k allocate calls with the handles dropped, then
\* rollback_uncommited_writes: count_free_pages returns what it returned first.
C10_RollbackRestoresCount ==
  g.trail = "checked" => g.ret = g.count0

C10_Witness ==
  /\ g.trail = "checked"
  /\ g.k = 2
  /\ g.durable.txn >= 1

\* C11: when the secondary allocator region has no free page, allocate returns an
\* error value: the process is not aborted by allocate.
C11_AllocateReturnsError ==
  ~(pc = "aborted" /\ g.last = "allocate_panic")

\* C12: on an open manager primary_bit is 0 or 1; the flip step of every commit
\* changes it to the other value, once per commit, and no other step of any
\* operation changes it.
C12_PrimaryBitFlips ==
  [][ /\ (pc' \notin {"closed", "init_flush1", "init_flush2"})
           => mmap'[Hdr("primary_bit")] \in {0, 1}
      /\ (pc = "commit_flush1")
           => mmap'[Hdr("primary_bit")] = 1 - mmap[Hdr("primary_bit")]
      /\ (pc \in {"idle", "commit_flush2", "drop_flush1", "drop_flush2"})
           => mmap'[Hdr("primary_bit")] = mmap[Hdr("primary_bit")] ]_vars

C12_Witness ==
  /\ g.last = "commit" /\ g.durable.txn = 2
  /\ mmap[Hdr("primary_bit")] = 0
  /\ ~g.reopened

\* C13: after a crash during commit the disk holds either the primary_bit of
\* before the commit with the old primary slot intact, or the flipped primary_bit
\* with allocator_state_dirty = 1 in the new secondary slot.
C13_CrashShapes ==
  (g.last = "crash" /\ g.ctx = "commit")
    => \/ (mmap[Hdr("primary_bit")] = g.old_bit /\ PrimaryTriple = g.old_c)
       \/ (mmap[Hdr("primary_bit")] # g.old_bit
             /\ get_allocator_dirty(mmap, get_secondary(mmap)))

\* The mapping new() leaves behind when it has formatted it and written the magic.
FormattedImage ==
  [FormatImage(St(ZeroImage, Flushed(ZeroImage))).m EXCEPT ![Hdr("magic")] = 1]

\* C14: after a crash during the first-time initialization the magic number is on
\* disk only together with the whole formatted metapage and both formatted
\* allocator regions; a crash before the magic write leaves no magic on disk.
C14_InitCrashSafe ==
  /\ (g.last = "crash" /\ g.ctx \in {"init_format", "init_magic"})
       => (mmap[Hdr("magic")] = 1 => mmap = FormattedImage)
  /\ (g.last = "crash" /\ g.ctx = "init_format") => mmap[Hdr("magic")] # 1

C14_Witness ==
  /\ g.last = "crash" /\ g.ctx = "init_magic"
  /\ mmap[Hdr("magic")] = 1
  /\ mmap[Fld("aptr", 1)] = 2 /\ mmap[Bit(2, 0)] = 1

\* C15: open, Drop with no operation called, open again: the mapping (metapage
\* and allocator regions) after the second open is the one after the first.
C15_OpenDropIdempotent ==
  g.quiet >= 1 => mmap = g.image0

C15_Witness ==
  /\ g.quiet = 2 /\ g.last = "open" /\ pc = "idle"
  /\ g.durable.txn = 2

\* C16: when commit has returned, the new secondary's allocator region marks the
\* same page indices allocated as the new primary's region.
C16_RegionsConverge ==
  g.last = "commit"
    => free_indices(mmap, get_allocator_data(mmap, get_secondary(mmap)))
         = free_indices(mmap, get_allocator_data(mmap, get_primary(mmap)))

\* C17: count_free_pages returns the number of free pages of the secondary
\* allocator region and changes no byte of the mapping, the secondary's
\* allocator_state_dirty flag included, and flushes nothing.
C17_CountReadOnly ==
  [][ g'.last = "count_free_pages"
        => /\ g'.ret = allocator_count_free_pages(
                          mmap, get_allocator_data(mmap, get_secondary(mmap)))
           /\ mmap' = mmap
           /\ disk' = disk ]_vars

\* C18: when new() does not fail on a mapping of S bytes, usable_pages pages of
\* the page size in use and the two allocator regions fit into S bytes, so no
\* page the allocator can issue overlaps an allocator region.
C18_LayoutFits ==
  g.layout = "ok"
    => g.usable * LayoutPageSize(g.request) + 2 * required_space(g.usable) <= g.size

\* C19: within commit every mutation step is flushed before the next one writes:
\* once primary_bit and the new secondary's dirty flag are written, every earlier
\* write of the commit, the clear of the former secondary's dirty flag included,
\* is on disk.
C19_FlushBeforeFlip ==
  pc = "commit_flush2"
    => Unflushed \subseteq {Hdr("primary_bit"), Fld("dirty", get_secondary(mmap))}

\* The allocator region of slot s holds a write that no flush has completed.
RegionUnflushed(s) ==
  \E i \in PageIdx : Bit(get_allocator_data(mmap, s), i) \in Unflushed

\* C20: on an open manager a slot's allocator region holds unflushed writes only
\* while that slot's allocator_state_dirty = 1 is on disk: every on-disk state
\* with the flag at 0 has a region no unflushed write has touched.
C20_DirtyBeforeRegionWrite ==
  pc \in {"idle", "commit_flush1", "commit_flush2", "drop_flush1", "drop_flush2", "aborted"}
    => \A s \in Slots : RegionUnflushed(s) => disk[Fld("dirty", s)] = {1}

C20_Witness ==
  /\ g.last = "non_durable_commit"
  /\ RegionUnflushed(get_primary(mmap))
  /\ g.durable.txn = 1

\* C21: set_secondary_root_page, allocate, free, free_if_uncommitted and
\* rollback_uncommited_writes change neither what get_primary_root_page returns
\* nor what get_last_committed_transaction_id returns, also while a non-durable
\* commit is outstanding.
C21_ReadersFrame ==
  [][ g'.last \in {"set_secondary_root_page", "allocate", "free",
                   "free_if_uncommitted", "rollback"}
        => /\ get_primary_root_page' = get_primary_root_page
           /\ get_last_committed_transaction_id' = get_last_committed_transaction_id ]_vars

\* C22: a reader that calls get_primary_root_page and
\* get_last_committed_transaction_id at any point of a commit that follows an
\* outstanding non_durable_commit gets the state that non-durable commit published
\* or the state of the new commit, and never a transaction id below the one the
\* non-durable commit published.
C22_ReaderDuringCommit ==
  (pc \in {"commit_flush1", "commit_flush2"} /\ ~in_drop /\ read_from_secondary
     /\ g.pub.kind = "ndc")
    => /\ Observed(g.pub.t) \/ Observed(g.new)
       /\ get_last_committed_transaction_id >= g.pub.t.txn

\* C23: rollback_uncommited_writes marks in the secondary allocator region exactly
\* the pages that were marked when the transaction began, whatever allocate, free
\* and free_if_uncommitted calls the transaction made; it empties
\* allocated_since_commit and freed_since_commit and leaves primary_bit, the
\* primary slot and the primary allocator region as they were.
C23_RollbackRestoresRegion ==
  [][ g'.last = "rollback"
        => LET a == get_secondary(mmap')
               b == get_primary(mmap)
           IN /\ free_indices(mmap', get_allocator_data(mmap', a)) = g.region0
              /\ allocated_since_commit' = {}
              /\ freed_since_commit' = <<>>
              /\ mmap'[Hdr("primary_bit")] = mmap[Hdr("primary_bit")]
              /\ \A k \in SlotKeys : mmap'[Fld(k, b)] = mmap[Fld(k, b)]
              /\ free_indices(mmap', get_allocator_data(mmap', b))
                   = free_indices(mmap, get_allocator_data(mmap, b)) ]_vars

\* C24: when Drop has finished after any sequence of allocate, free,
\* free_if_uncommitted, set_secondary_root_page, commit, non_durable_commit,
\* rollback_uncommited_writes and count_free_pages calls, with no abort and no
\* crash, allocator_state_dirty is 0 on disk in both slots, and the next open
\* passes its checks.
C24_DropClearsDirty ==
  /\ g.last = "dropped"
       => /\ \A s \in Slots : disk[Fld("dirty", s)] = {0}
          /\ OpenChecks(mmap)
  /\ g.last = "open" => pc = "idle"

C24_Witness ==
  /\ g.last = "dropped"
  /\ g.pub.kind = "drop_commit"
  /\ g.durable.txn = 2
  /\ g.live # {}

\* C25: after Drop and the next open, in-flight transaction or not, every slot
\* whose allocator_state_dirty is 0 has an allocator region that marks allocated
\* exactly the metadata page and the live pages of the last committed state: no
\* committed live page is marked free and no never-committed page is marked
\* allocated.
C25_DropKeepsCommitted ==
  (g.last = "open" /\ pc = "idle")
    => \A s \in Slots :
         ~get_allocator_dirty(mmap, s)
           => PageIdx \ free_indices(mmap, get_allocator_data(mmap, s))
                = g.base_live \cup {DB_METADATA_PAGE}

====
